---- MODULE Spec2Model ----
(***************************************************************************)
(* Model of the buddy-allocator bookkeeping tree of src/src/lib.rs: the    *)
(* flat-tree and nested-tree index arithmetic, Block and its merge rule,   *)
(* and Tree::new_free / Tree::update_blocks_above.                         *)
(*                                                                         *)
(* Arithmetic is Rust's with overflow checks on (the profile the crate's   *)
(* tests are built with): an unsigned subtraction that would go below      *)
(* zero panics, and so does an index outside the storage.  A panic is the  *)
(* value Overflow in the index functions and the state pc = "panic" in     *)
(* the operations.  The dbg!/println! trace output is left out.            *)
(***************************************************************************)
EXTENDS Integers, Sequences, FiniteSets, TLC

VARIABLES
    LEVELS,     \* the const generic height of Tree<B, LEVELS>
    blocks,     \* Tree.blocks: GlobalIndex -> Block.order_free
    pc,         \* "start" | "init" | "walk" | "ready" | "panic" | "calls"
    j,          \* new_free: the second loop's tree counter
    i,          \* new_free: the next i of the inner loop
    index,      \* update_blocks_above: the local `index`
    order,      \* update_blocks_above: the loop variable `order`
    caller,     \* who ran update_blocks_above last: "none" | "new_free" | "consumer"
    start,      \* the index update_blocks_above was called with
    written,    \* the indices update_blocks_above has written, in order
    fault,      \* "none" | "overflow" | "oob": why the operation panicked
    before,     \* the blocks before the consumer's current step
    phase,      \* 0 untouched tree, 1 one leaf set used, 2 same leaf set free again, 3 other
    q           \* the last single call of an associated function: [fn, arg, res]

vars == <<LEVELS, blocks, pc, j, i, index, order, caller, start, written,
          fault, before, phase, q>>

(***************************************************************************)
(* Bounds.                                                                 *)
(***************************************************************************)
MaxLevels == 8        \* new_free is run for LEVELS in 1..MaxLevels
MaxFlatLevels == 4    \* a consumer works on trees of LEVELS in 2..MaxFlatLevels
MaxCallLevels == 6    \* single calls are made for LEVELS in 2..MaxCallLevels
MaxHeightArg == 12    \* blocks_in_tree is called for levels in 1..MaxHeightArg
MaxLocal == 7         \* global_idx is called with local indices 0..MaxLocal
MaxSubtree == 2       \* global_idx is called with sub-tree indices 0..MaxSubtree

(***************************************************************************)
(* Checked arithmetic.                                                     *)
(***************************************************************************)
Overflow == 0 - 1

CheckedSub(a, b) == IF a = Overflow \/ b = Overflow \/ a < b THEN Overflow ELSE a - b

RECURSIVE Pow2(_)
Pow2(n) == IF n <= 0 THEN 1 ELSE 2 * Pow2(n - 1)

(***************************************************************************)
(* mod flat_tree                                                           *)
(***************************************************************************)
sibling_of(idx) == IF idx % 2 = 0 THEN idx + 1 ELSE idx - 1

parent_of(idx) == (idx - 1) \div 2

flat_blocks_in_tree(levels) == Pow2(levels) - 1

(***************************************************************************)
(* mod nested_tree                                                         *)
(***************************************************************************)
LEVELS_IN_SUBTREE == 6

SIZE_OF_SUBTREE == Pow2(LEVELS_IN_SUBTREE - 1)

blocks_in_tree(levels_in_tree) ==
    LET perfect_flat_levels_in_subtrees ==
            (levels_in_tree \div LEVELS_IN_SUBTREE) * LEVELS_IN_SUBTREE
        leftover_blocks ==
            flat_blocks_in_tree(levels_in_tree)
                - flat_blocks_in_tree(perfect_flat_levels_in_subtrees)
        blocks_in_subtrees ==
            perfect_flat_levels_in_subtrees * flat_blocks_in_tree(LEVELS_IN_SUBTREE)
    IN  blocks_in_subtrees + leftover_blocks

(***************************************************************************)
(* Block                                                                   *)
(***************************************************************************)
is_used(b) == b = 0

BlockAdd(b, rhs) == b + rhs

BlockMax(a, b) == IF b >= a THEN b ELSE a

(***************************************************************************)
(* impl Tree: the index functions.  LEVELS is the tree's const generic.    *)
(***************************************************************************)
StorageLen == blocks_in_tree(LEVELS)

subtree_order(o) ==
    IF o <= LEVELS % LEVELS_IN_SUBTREE
    THEN 0
    ELSE (o - (LEVELS % LEVELS_IN_SUBTREE)) \div LEVELS_IN_SUBTREE + 1

subtree_slice_offset(so) ==
    LET bound == CheckedSub(LEVELS, 2)
    IN  IF bound = Overflow THEN Overflow
        ELSE IF so < bound THEN blocks_in_tree(LEVELS - so - 1)
        ELSE 0

size_of_subtree(so) ==
    IF so = 0 /\ LEVELS % LEVELS_IN_SUBTREE # 0
    THEN Pow2((LEVELS % LEVELS_IN_SUBTREE) - 1)
    ELSE SIZE_OF_SUBTREE

subtree_idx(idx, so) ==
    LET subtree_slice_idx == CheckedSub(idx, subtree_slice_offset(so))
    IN  IF subtree_slice_idx = Overflow THEN Overflow
        ELSE subtree_slice_idx \div size_of_subtree(so)

local_idx(idx, so) ==
    LET subtree_slice_idx == CheckedSub(idx, subtree_slice_offset(so))
    IN  IF subtree_slice_idx = Overflow THEN Overflow
        ELSE subtree_slice_idx % size_of_subtree(so)

global_idx(local, subtree, so) ==
    LET off == subtree_slice_offset(so)
    IN  IF off = Overflow \/ local = Overflow \/ subtree = Overflow THEN Overflow
        ELSE subtree * size_of_subtree(so) + local + off

parent(idx, o) ==
    LET so == subtree_order(o)
        local == local_idx(idx, so)
        subtree == subtree_idx(idx, so)
    IN  IF local = Overflow THEN Overflow
        ELSE IF local = 0
        THEN LET subtree_slice_idx == CheckedSub(idx, subtree_slice_offset(so))
             IN  global_idx(0, subtree_slice_idx * 2, so + 1)
        ELSE global_idx(parent_of(local), subtree, so)

sibling(idx, o) ==
    LET so == subtree_order(o)
        subtree == subtree_idx(idx, so)
        local == local_idx(idx, so)
    IN  IF subtree = Overflow THEN Overflow
        ELSE IF local = 0
        THEN global_idx(0, sibling_of(subtree), so)
        ELSE global_idx(sibling_of(local), subtree, so)

\* merge_from_children without the !left.is_used() test
merge_from_children_unguarded(bs, idx, left, right) ==
    [bs EXCEPT ![idx] = IF left = right
                        THEN BlockAdd(left, 1)
                        ELSE BlockMax(left, right)]

merge_from_children(bs, idx, left, right) ==
    [bs EXCEPT ![idx] = IF left = right /\ ~is_used(left)
                        THEN BlockAdd(left, 1)
                        ELSE BlockMax(left, right)]

(***************************************************************************)
(* The fully free tree in breadth-first layout: a node at depth level      *)
(* (1 = root) holds LEVELS - level + 1.  It is the storage content the     *)
(* consumer operations are exercised on.                                   *)
(***************************************************************************)
RECURSIVE Level(_)
Level(n) == IF n = 0 THEN 1 ELSE 1 + Level((n - 1) \div 2)

FreeLayout == [n \in 0..(StorageLen - 1) |-> LEVELS - Level(n) + 1]

Leaves == flat_blocks_in_tree(LEVELS - 1)..(flat_blocks_in_tree(LEVELS) - 1)

(***************************************************************************)
(* Tree::new_free: its locals.                                             *)
(***************************************************************************)
slice_offset == subtree_slice_offset(0)

tree_offset_size ==
    IF LEVELS % LEVELS_IN_SUBTREE # 0
    THEN LET e == CheckedSub(CheckedSub(LEVELS % LEVELS_IN_SUBTREE, 1), 1)
         IN  IF e = Overflow THEN Overflow ELSE Pow2(e)
    ELSE Pow2(LEVELS_IN_SUBTREE - 2)

bottom_level_size == CheckedSub(StorageLen, slice_offset)

\* the i of the first loop nest: tree_offset..bottom_level_size for every tree
\* whose tree_offset does not exceed the storage length
FillSet ==
    UNION { (tree_offset_size * tree)..(bottom_level_size - 1) :
                tree \in { t \in 0..(StorageLen \div tree_offset_size) :
                               tree_offset_size * t <= StorageLen } }

\* the second loop nest, resumed at (jj, ii): the next call it makes, if any
RECURSIVE NextCall(_, _)
NextCall(jj, ii) ==
    IF tree_offset_size * jj > StorageLen THEN [done |-> TRUE, j |-> jj, i |-> ii]
    ELSE IF ii < bottom_level_size THEN [done |-> FALSE, j |-> jj, i |-> ii]
    ELSE NextCall(jj + 1, tree_offset_size * (jj + 1))

Panic(why) ==
    /\ pc' = "panic"
    /\ fault' = why

NoQ == [fn |-> "none", arg |-> <<>>, res |-> <<>>]

(***************************************************************************)
(* Init: the caller's storage for a tree of height LEVELS, exactly         *)
(* blocks_in_tree(LEVELS) blocks, holding one value throughout             *)
(* (tests::new_flat_blocks fills it with order_free 1) or already the      *)
(* fully free layout.                                                      *)
(***************************************************************************)
Init ==
    /\ LEVELS \in 1..MaxLevels
    /\ blocks \in { [n \in 0..(StorageLen - 1) |-> f] : f \in 0..1 }
                  \cup (IF LEVELS <= MaxFlatLevels THEN {FreeLayout} ELSE {})
    /\ pc = "start"
    /\ j = 0
    /\ i = 0
    /\ index = 0
    /\ order = 0
    /\ caller = "none"
    /\ start = 0
    /\ written = <<>>
    /\ fault = "none"
    /\ before = blocks
    /\ phase = 0
    /\ q = NoQ

(***************************************************************************)
(* Tree::new_free, up to the construction of the Tree: the locals and the  *)
(* first loop nest, which sets the bottom slice to order_free 1.           *)
(***************************************************************************)
NewFreeFill ==
    /\ pc = "start"
    /\ caller = "none"
    /\ caller' = "new_free"
    /\ IF slice_offset = Overflow \/ tree_offset_size = Overflow
          \/ bottom_level_size = Overflow
       THEN /\ Panic("overflow")
            /\ UNCHANGED <<blocks, j, i>>
       ELSE IF \E k \in FillSet : slice_offset + k >= StorageLen
       THEN /\ Panic("oob")
            /\ UNCHANGED <<blocks, j, i>>
       ELSE /\ blocks' = [n \in 0..(StorageLen - 1) |->
                            IF n - slice_offset \in FillSet THEN 1 ELSE blocks[n]]
            /\ pc' = "init"
            /\ j' = 0
            /\ i' = 0
            /\ UNCHANGED fault
    /\ UNCHANGED <<LEVELS, index, order, start, written, before, phase, q>>

(***************************************************************************)
(* Tree::new_free, second loop nest: the next                              *)
(* update_blocks_above(GlobalIndex(slice_offset + i), Order(1)), or the    *)
(* return of the tree when the loops are over.                             *)
(***************************************************************************)
NewFreeCall ==
    /\ pc = "init"
    /\ LET n == NextCall(j, i)
       IN  IF n.done
           THEN /\ pc' = "ready"
                /\ UNCHANGED <<j, i, index, order, start, written, caller>>
           ELSE /\ pc' = "walk"
                /\ j' = n.j
                /\ i' = n.i + 1
                /\ index' = slice_offset + n.i
                /\ start' = slice_offset + n.i
                /\ order' = 1 - 1
                /\ written' = <<>>
                /\ UNCHANGED caller
    /\ UNCHANGED <<LEVELS, blocks, fault, before, phase, q>>

(***************************************************************************)
(* The struct literal Tree { blocks } over storage that already holds the  *)
(* fully free layout: the tree a consumer starts from.                     *)
(***************************************************************************)
Adopt ==
    /\ pc = "start"
    /\ LEVELS \in 2..MaxFlatLevels
    /\ blocks = FreeLayout
    /\ pc' = "ready"
    /\ UNCHANGED <<LEVELS, blocks, j, i, index, order, caller, start, written,
                   fault, before, phase, q>>

(***************************************************************************)
(* A consumer's step: it sets one leaf's order_free to 0 or 1 and calls    *)
(* update_blocks_above(leaf, Order(1)).                                    *)
(***************************************************************************)
ConsumerStep ==
    /\ pc = "ready"
    /\ \E leaf \in Leaves, v \in 0..1 :
        /\ blocks' = [blocks EXCEPT ![leaf] = v]
        /\ index' = leaf
        /\ start' = leaf
        /\ phase' = IF phase = 0 /\ v = 0 THEN 1
                    ELSE IF phase = 1 /\ v = 1 /\ leaf = start THEN 2
                    ELSE 3
    /\ before' = blocks
    /\ order' = 1 - 1
    /\ written' = <<>>
    /\ caller' = "consumer"
    /\ pc' = "walk"
    /\ UNCHANGED <<LEVELS, j, i, fault, q>>

(***************************************************************************)
(* Tree::update_blocks_above: one iteration of `for order in               *)
(* (order.0 - 1)..LEVELS`, and the return after the last one.              *)
(***************************************************************************)
UpdateStep ==
    /\ pc = "walk"
    /\ LET sib == sibling(index, order)
           par == parent(index, order)
       IN  IF index >= StorageLen
           THEN Panic("oob") /\ UNCHANGED <<blocks, index, order, written, caller>>
           ELSE IF sib = Overflow
           THEN Panic("overflow") /\ UNCHANGED <<blocks, index, order, written, caller>>
           ELSE IF sib >= StorageLen
           THEN Panic("oob") /\ UNCHANGED <<blocks, index, order, written, caller>>
           ELSE IF par = Overflow
           THEN Panic("overflow") /\ UNCHANGED <<blocks, index, order, written, caller>>
           ELSE IF par >= StorageLen
           THEN Panic("oob") /\ UNCHANGED <<blocks, index, order, written, caller>>
           ELSE /\ blocks' = merge_from_children(blocks, par, blocks[index], blocks[sib])
                /\ written' = Append(written, par)
                /\ index' = par
                /\ order' = order + 1
                /\ IF order + 1 < LEVELS
                   THEN UNCHANGED <<pc, caller>>
                   ELSE IF caller = "new_free"
                   THEN pc' = "init" /\ UNCHANGED caller
                   ELSE pc' = "ready" /\ UNCHANGED caller
                /\ UNCHANGED fault
    /\ UNCHANGED <<LEVELS, j, i, start, before, phase, q>>

Next ==
    \/ NewFreeFill
    \/ NewFreeCall
    \/ Adopt
    \/ ConsumerStep
    \/ UpdateStep

Spec == Init /\ [][Next]_vars

(***************************************************************************)
(* Single calls of the associated functions, each on a fresh tree value:   *)
(* q records the call, its arguments and what it returned.                 *)
(***************************************************************************)
InitCalls ==
    /\ LEVELS \in 2..MaxCallLevels
    /\ blocks \in { [n \in 0..(StorageLen - 1) |-> f] : f \in 0..1 }
                  \cup (IF LEVELS <= MaxFlatLevels THEN {FreeLayout} ELSE {})
    /\ pc = "calls"
    /\ j = 0
    /\ i = 0
    /\ index = 0
    /\ order = 0
    /\ caller = "none"
    /\ start = 0
    /\ written = <<>>
    /\ fault = "none"
    /\ before = blocks
    /\ phase = 0
    /\ q = NoQ

Fresh == pc = "calls" /\ q = NoQ

Pure == UNCHANGED <<LEVELS, blocks, pc, j, i, index, order, caller, start,
                    written, fault, before, phase>>

\* nested_tree::blocks_in_tree(l) next to flat_tree::blocks_in_tree(l)
CallBlocksInTree ==
    /\ Fresh
    /\ \E l \in 1..MaxHeightArg :
        q' = [fn |-> "blocks_in_tree", arg |-> <<l>>,
              res |-> <<blocks_in_tree(l), flat_blocks_in_tree(l)>>]
    /\ Pure

\* local_idx and subtree_idx of a GlobalIndex, and global_idx of the two
CallSplit ==
    /\ Fresh
    /\ \E g \in 0..(StorageLen - 1), s \in 0..LEVELS :
        q' = [fn |-> "split", arg |-> <<g, s>>,
              res |-> <<local_idx(g, s), subtree_idx(g, s),
                        global_idx(local_idx(g, s), subtree_idx(g, s), s)>>]
    /\ Pure

\* global_idx of a triple, and local_idx and subtree_idx of the result
CallGlobalIdx ==
    /\ Fresh
    /\ \E l \in 0..MaxLocal, t \in 0..MaxSubtree, s \in 0..LEVELS :
        LET g == global_idx(l, t, s)
        IN  q' = [fn |-> "global_idx", arg |-> <<l, t, s>>,
                  res |-> <<g, local_idx(g, s), subtree_idx(g, s)>>]
    /\ Pure

\* Tree::sibling(idx, order)
CallSibling ==
    /\ Fresh
    /\ \E n \in 0..(StorageLen - 1), o \in 0..LEVELS :
        q' = [fn |-> "sibling", arg |-> <<n, o>>, res |-> <<sibling(n, o)>>]
    /\ Pure

\* Tree::parent(idx, order)
CallParent ==
    /\ Fresh
    /\ \E n \in 0..(StorageLen - 1), o \in 0..LEVELS :
        q' = [fn |-> "parent", arg |-> <<n, o>>, res |-> <<parent(n, o)>>]
    /\ Pure

\* Tree::merge_from_children(idx, left, right) with idx inside the storage
CallMerge ==
    /\ Fresh
    /\ \E n \in 0..(StorageLen - 1), left \in 0..LEVELS, right \in 0..LEVELS :
        /\ blocks' = merge_from_children(blocks, n, left, right)
        /\ q' = [fn |-> "merge", arg |-> <<n, left, right>>, res |-> <<>>]
    /\ UNCHANGED <<LEVELS, pc, j, i, index, order, caller, start, written,
                   fault, before, phase>>

NextCalls ==
    \/ CallBlocksInTree
    \/ CallSplit
    \/ CallGlobalIdx
    \/ CallSibling
    \/ CallParent
    \/ CallMerge

SpecCalls == InitCalls /\ [][NextCalls]_vars

(***************************************************************************)
(* What the properties speak of: the tree as a complete binary tree in     *)
(* breadth-first order, and the tiers as subtree_order assigns them to     *)
(* the orders 1..LEVELS.                                                   *)
(***************************************************************************)
Nodes == 0..(flat_blocks_in_tree(LEVELS) - 1)

NodeOrder(n) == LEVELS - Level(n) + 1

TierOf(n) == subtree_order(NodeOrder(n))

TierLevels(s) == Cardinality({ o \in 1..LEVELS : subtree_order(o) = s })

NodesInSubtree(s) == flat_blocks_in_tree(TierLevels(s))

SubtreesInTier(s) == Pow2(Cardinality({ o \in 1..LEVELS : subtree_order(o) > s }))

Triples ==
    { t \in (0..flat_blocks_in_tree(LEVELS)) \X (0..flat_blocks_in_tree(LEVELS))
                \X (0..LEVELS) :
        /\ TierLevels(t[3]) > 0
        /\ t[1] < NodesInSubtree(t[3])
        /\ t[2] < SubtreesInTier(t[3]) }

MergeRule(l, r) == IF l = r /\ l # 0 THEN l + 1 ELSE IF l >= r THEN l ELSE r

RECURSIVE AncestorChain(_)
AncestorChain(n) ==
    IF n = 0 THEN <<>> ELSE <<(n - 1) \div 2>> \o AncestorChain((n - 1) \div 2)

Ended == pc \in {"ready", "panic"}

\* C1: when new_free on a tree of height 3 or 8 has ended, it has returned
\* the tree, and every node at depth level (1 = root) holds LEVELS - level + 1:
\* the root holds LEVELS, and for LEVELS = 8 the blocks 0, 1..2, 3..6 hold 8, 7, 6.
C1_NewFreeAllFree ==
    (caller = "new_free" /\ Ended /\ LEVELS \in {3, 8}) =>
        /\ pc = "ready"
        /\ \A n \in Nodes : blocks[n] = LEVELS - Level(n) + 1

\* C2: whenever the tree is at rest between consumer steps, every non-leaf node
\* holds the merge of its two children's values.
C2_MergeInvariant ==
    pc = "ready" =>
        \A n \in 0..(flat_blocks_in_tree(LEVELS - 1) - 1) :
            blocks[n] = MergeRule(blocks[2 * n + 1], blocks[2 * n + 2])

\* C3: local_idx/subtree_idx and global_idx are mutually inverse: a node's
\* index split in its tier and joined again is the index; a triple within its
\* tier's bounds joined and split again is the triple, lies inside the
\* storage, and shares its global index with no other such triple.
C3_IndexBijection ==
    /\ (q.fn = "split" /\ q.arg[1] \in Nodes /\ q.arg[2] = TierOf(q.arg[1])) =>
            q.res[3] = q.arg[1]
    /\ (q.fn = "global_idx" /\ <<q.arg[1], q.arg[2], q.arg[3]>> \in Triples) =>
            /\ q.res[1] # Overflow
            /\ q.res[1] < StorageLen
            /\ q.res[2] = q.arg[1]
            /\ q.res[3] = q.arg[2]
            /\ \A t \in Triples :
                 t # <<q.arg[1], q.arg[2], q.arg[3]>>
                    => global_idx(t[1], t[2], t[3]) # q.res[1]

\* C4: for every height that is a multiple of LEVELS_IN_SUBTREE the nested
\* blocks_in_tree equals the flat one, 2^L - 1.
C4_NestedEqualsFlat ==
    (q.fn = "blocks_in_tree" /\ q.arg[1] % LEVELS_IN_SUBTREE = 0) =>
        /\ q.res[1] = q.res[2]
        /\ q.res[2] = Pow2(q.arg[1]) - 1

\* C5: merge_from_children(idx, left, right) leaves at idx left + 1 when the
\* children are equal and nonzero and the larger child otherwise, and leaves
\* every other node as it was.
C5_MergeWritesRule ==
    q.fn = "merge" =>
        /\ blocks[q.arg[1]] =
              (IF q.arg[2] = q.arg[3] /\ q.arg[2] # 0 THEN q.arg[2] + 1
               ELSE IF q.arg[2] > q.arg[3] THEN q.arg[2] ELSE q.arg[3])
        /\ \A n \in DOMAIN blocks : n # q.arg[1] => blocks[n] = before[n]

\* two equal free children of order 2 were merged into a node that held 1
C5_Witness ==
    /\ q.fn = "merge"
    /\ q.arg[2] = q.arg[3]
    /\ q.arg[2] = 2
    /\ blocks[q.arg[1]] = 3
    /\ before[q.arg[1]] = 1

\* C6: in the height-3 tree [3,2,2,1,1,1,1], setting leaf 3 to 0 and running
\* update_blocks_above on it ends with 1 at index 1 and 1 at index 0, and
\* indices 2, 4, 5, 6 as they were.
C6_LeafThreeUsed ==
    (LEVELS = 3 /\ caller = "consumer" /\ phase = 1 /\ start = 3 /\ Ended) =>
        /\ pc = "ready"
        /\ blocks = [n \in 0..6 |-> IF n \in {0, 1} THEN 1
                                     ELSE IF n = 3 THEN 0 ELSE before[n]]

\* C7: from the fully free tree, a leaf set to 0 and propagated, then set back
\* to 1 and propagated, leaves every node with its fully free value.
C7_RoundTrip ==
    /\ (caller = "consumer" /\ phase \in {1, 2}) => pc # "panic"
    /\ (caller = "consumer" /\ phase = 2 /\ pc = "ready") => blocks = FreeLayout

\* C8: update_blocks_above(leaf, Order(1)) ends having written the leaf's
\* LEVELS - 1 proper ancestors once each, from the leaf's parent up to the
\* root, and nothing after the root.
C8_WalkWritesAncestors ==
    (caller = "consumer" /\ Ended) =>
        /\ pc = "ready"
        /\ written = AncestorChain(start)

\* C9: for a non-root node at its order, the sibling of its sibling is the
\* node, and both have the same parent, one level nearer the root.
C9_SiblingParent ==
    (q.fn = "sibling" /\ q.arg[1] \in Nodes \ {0} /\ q.arg[2] = NodeOrder(q.arg[1])) =>
        LET n == q.arg[1]
            o == q.arg[2]
            sib == q.res[1]
        IN  /\ sib # Overflow
            /\ sibling(sib, o) = n
            /\ parent(n, o) # Overflow
            /\ parent(sib, o) = parent(n, o)
            /\ parent(n, o) \in Nodes
            /\ Level(parent(n, o)) = Level(n) - 1

\* C10: for the heights 3, 7 and 8, new_free and update_blocks_above on a leaf
\* never index outside the storage and never subtract below zero.
C10_NoFault == LEVELS \in {3, 7, 8} => fault = "none"

====
